---- MODULE Spec2Model ----
(***************************************************************************)
(* Model of GitHubDiffGenerator (src/src/lib/github-diff-generator.ts,     *)
(* first revision, lines 1-461): the commit fetcher getAllCommits, the     *)
(* aggregator getRepoDiff, the diff truncator truncateDiffs, the URL       *)
(* parser parseGitHubUrl and the orchestration generateChangelog with its  *)
(* providers and publisher; and of the generate-changelog route that calls *)
(* it (src/unnamed/part_001).                                              *)
(*                                                                         *)
(* Strings are kept exactly, in run-length form: a string is a sequence of *)
(* runs <<c, n>> (character c repeated n >= 1 times) in which neighbouring *)
(* runs carry different characters.  "\n" is the newline character.  Every *)
(* string operation below is the JavaScript operation computed on runs, so *)
(* texts of tens of thousands of characters stay small values.             *)
(***************************************************************************)
EXTENDS Integers, Sequences, FiniteSets, TLC

\* ------------------------------------------------------------ constants
MAX_PER_PAGE == 100
MAX_TOTAL_COMMITS == 3000
MAX_TOKENS == 6000
CHARS_PER_TOKEN == 4
MAX_DIFF_LENGTH == MAX_TOKENS * CHARS_PER_TOKEN
\* content.substring(0, 200)
CONTENT_KEEP == 200
\* Math.floor(MAX_DIFF_LENGTH / 400)
PER_DIFF_BUDGET == 400
\* sections.slice(0, 3)
HEADER_LINES == 3

\* ------------------------------------------------------------ strings
NL == "\n"

Min(a, b) == IF a <= b THEN a ELSE b

\* s + t
Cat(s, t) ==
    IF s = <<>> THEN t
    ELSE IF t = <<>> THEN s
    ELSE IF s[Len(s)][1] = t[1][1]
         THEN SubSeq(s, 1, Len(s) - 1)
              \o << <<t[1][1], s[Len(s)][2] + t[1][2]>> >>
              \o SubSeq(t, 2, Len(t))
         ELSE s \o t

\* s.length  (summed by halves, so that long texts need little recursion depth)
RECURSIVE RunSum(_, _, _)
RunSum(s, lo, hi) ==
    IF lo > hi THEN 0
    ELSE IF lo = hi THEN s[lo][2]
    ELSE LET mid == (lo + hi) \div 2
         IN  RunSum(s, lo, mid) + RunSum(s, mid + 1, hi)

StrLen(s) == RunSum(s, 1, Len(s))

\* s.substring(0, n)
RECURSIVE Substring0(_, _)
Substring0(s, n) ==
    IF n <= 0 \/ s = <<>> THEN <<>>
    ELSE IF s[1][2] >= n THEN << <<s[1][1], n>> >>
    ELSE <<s[1]>> \o Substring0(Tail(s), n - s[1][2])

\* arr.join(sep), joined by halves
RECURSIVE JoinRange(_, _, _, _)
JoinRange(arr, sep, lo, hi) ==
    IF lo > hi THEN <<>>
    ELSE IF lo = hi THEN arr[lo]
    ELSE LET mid == (lo + hi) \div 2
         IN  Cat(Cat(JoinRange(arr, sep, lo, mid), sep),
                 JoinRange(arr, sep, mid + 1, hi))

Join(arr, sep) == JoinRange(arr, sep, 1, Len(arr))

\* n empty strings
Empties(n) == [k \in 1..n |-> <<>>]

\* s.split('\n'): acc holds the lines closed so far, cur the line being read
RECURSIVE SplitAcc(_, _, _)
SplitAcc(s, acc, cur) ==
    IF s = <<>> THEN Append(acc, cur)
    ELSE IF s[1][1] = NL
         THEN SplitAcc(Tail(s), Append(acc, cur) \o Empties(s[1][2] - 1), <<>>)
         ELSE SplitAcc(Tail(s), acc, Append(cur, s[1]))

SplitLines(s) == SplitAcc(s, <<>>, <<>>)

\* arr.slice(0, k)
SliceTo(arr, k) == SubSeq(arr, 1, Min(k, Len(arr)))
\* arr.slice(k)
SliceFrom(arr, k) == SubSeq(arr, k + 1, Len(arr))

\* one decimal digit as a character
Digit(d) == CASE d = 0 -> "0" [] d = 1 -> "1" [] d = 2 -> "2" [] d = 3 -> "3"
              [] d = 4 -> "4" [] d = 5 -> "5" [] d = 6 -> "6" [] d = 7 -> "7"
              [] d = 8 -> "8" [] d = 9 -> "9"

RECURSIVE NatStr(_)
NatStr(n) ==
    IF n < 10 THEN << <<Digit(n), 1>> >>
    ELSE Cat(NatStr(n \div 10), << <<Digit(n % 10), 1>> >>)

\* `${n}` for an integer n
NumStr(n) == IF n < 0 THEN Cat(<< <<"-", 1>> >>, NatStr(0 - n)) ELSE NatStr(n)

\* '\n\n'
BlankLine == << <<NL, 2>> >>
\* '\n... (truncated)'
TruncatedMarker ==
    << <<NL, 1>>, <<".", 3>>, <<" ", 1>>, <<"(", 1>>, <<"t", 1>>, <<"r", 1>>,
       <<"u", 1>>, <<"n", 1>>, <<"c", 1>>, <<"a", 1>>, <<"t", 1>>, <<"e", 1>>,
       <<"d", 1>>, <<")", 1>> >>
\* '\n\n... ('
MorePrefix == << <<NL, 2>>, <<".", 3>>, <<" ", 1>>, <<"(", 1>> >>
\* ' more changes)'
MoreSuffix ==
    << <<" ", 1>>, <<"m", 1>>, <<"o", 1>>, <<"r", 1>>, <<"e", 1>>, <<" ", 1>>,
       <<"c", 1>>, <<"h", 1>>, <<"a", 1>>, <<"n", 1>>, <<"g", 1>>, <<"e", 1>>,
       <<"s", 1>>, <<")", 1>> >>

\* ------------------------------------------------------------ truncateDiffs
\* the patch is cut without a marker being put behind it
TruncateBlockNoMarker(diff) ==
    LET sections == SplitLines(diff)
        commitInfo == Join(SliceTo(sections, HEADER_LINES), << <<NL, 1>> >>)
        content == Join(SliceFrom(sections, HEADER_LINES), << <<NL, 1>> >>)
    IN  Cat(Cat(commitInfo, << <<NL, 1>> >>), Substring0(content, CONTENT_KEEP))

\* the callback of diffs.map(...)
TruncateBlock(diff) ==
    LET sections == SplitLines(diff)
        commitInfo == Join(SliceTo(sections, HEADER_LINES), << <<NL, 1>> >>)
        content == Join(SliceFrom(sections, HEADER_LINES), << <<NL, 1>> >>)
        truncatedContent == Substring0(content, CONTENT_KEEP)
    IN  Cat(Cat(Cat(commitInfo, << <<NL, 1>> >>), truncatedContent),
            IF StrLen(content) > CONTENT_KEEP THEN TruncatedMarker ELSE <<>>)

\* the text is compared with the token budget instead of the character budget
FitsCeilingTokens(len, maxLen) == len <= maxLen \div CHARS_PER_TOKEN

\* fullText.length <= MAX_DIFF_LENGTH
FitsCeiling(len, maxLen) == len <= maxLen

\* the number of blocks to drop is taken for the number to keep
KeptBlocksDropCount(truncatedDiffs, maxDiffs) ==
    SliceTo(truncatedDiffs, Len(truncatedDiffs) - maxDiffs)

\* the last maxDiffs blocks are kept instead of the first
KeptBlocksTail(truncatedDiffs, maxDiffs) ==
    SliceFrom(truncatedDiffs, Len(truncatedDiffs) - Min(maxDiffs, Len(truncatedDiffs)))

\* truncatedDiffs.slice(0, maxDiffs)
KeptBlocks(truncatedDiffs, maxDiffs) == SliceTo(truncatedDiffs, maxDiffs)

\* truncateDiffs with the ceiling as a parameter
TruncateDiffsAt(diffs, maxLen) ==
    LET fullText == Join(diffs, BlankLine)
    IN  IF FitsCeiling(StrLen(fullText), maxLen) THEN fullText
        ELSE LET truncatedDiffs == [i \in 1..Len(diffs) |-> TruncateBlock(diffs[i])]
                 result == Join(truncatedDiffs, BlankLine)
             IN  IF StrLen(result) > maxLen
                 THEN LET maxDiffs == maxLen \div PER_DIFF_BUDGET
                      IN  Cat(Join(KeptBlocks(truncatedDiffs, maxDiffs), BlankLine),
                              Cat(Cat(MorePrefix, NumStr(Len(diffs) - maxDiffs)),
                                  MoreSuffix))
                 ELSE result

truncateDiffs(diffs) == TruncateDiffsAt(diffs, MAX_DIFF_LENGTH)

\* ------------------------------------------------------------ state
VARIABLES
    diffs,        \* the diff-block sequence handed to truncateDiffs
    ceiling,      \* the ceiling the last truncation ran with
    truncated,    \* the string the last truncation returned
    tpc,          \* "start" before truncateDiffs has run, "done" after
    \* getRepoDiff / getAllCommits
    fpc,          \* where the fetch stands: "idle", "loop", "list", "details",
                  \* "delay", "aggregate", "returned", "threw"
    page,         \* let page
    allCommits,   \* let allCommits (a commit is held by its sha)
    hasMore,      \* let hasMore
    response,     \* the list response of the current page: data and link header
    pending,      \* commit-detail requests in flight: <<page, position>>
    arrived,      \* positions of the current page whose detail has arrived, in
                  \* order of arrival
    summary,      \* what getRepoDiff returned, NoSummary before
    \* the hosting API and what it has seen
    apiSizes,     \* the page sizes this API answers with
    served,       \* commits listed so far
    listLog,      \* pages whose list was requested, in order of request
    detailLog,    \* shas whose detail was requested
    repeated,     \* a detail was requested again for a sha already in detailLog
    failures,     \* requests that failed
    settled,      \* pages whose Promise.all has resolved
    delays,       \* inter-page delays that have elapsed
    \* parseGitHubUrl
    repoUrl,      \* the repository URL handed in
    parsed,       \* what parseGitHubUrl returned for it, NotParsed before
    \* the generator and generateChangelog
    gpc,          \* where the generator stands: "idle", "new", "constructed",
                  \* "configured", "fetch", "provider", "publish", "returned",
                  \* "threw"
    env,          \* process.env: ENABLE_GREPTILE and ENABLE_OPENAI are 'true'
    openai,       \* this.openai is not null
    shouldPublish,    \* the argument of generateChangelog
    selectedProvider, \* const selectedProvider, "none" before
    providerLog,      \* the providers a request was sent to, in order
    providerResponse, \* the provider's answer, NoProviderResponse before
    finalChangelog,   \* const finalChangelog
    publishLog,       \* the changelogs posted to Gramaphone, in order
    publishFailed,    \* a publish request failed
    result,           \* the string generateChangelog returned
    error,            \* the message of the error generateChangelog threw
    \* the generate-changelog route
    rpc,              \* where the handler stands: "idle", "received",
                      \* "generating", "responded"
    request,          \* the request body, NoRequest before
    githubPat,        \* process.env.GITHUB_PAT is set
    httpResponse      \* the response of the handler, NoHttpResponse before

truncVars == <<diffs, ceiling, truncated, tpc>>
fetchVars == <<fpc, page, allCommits, hasMore, response, pending, arrived, summary,
               apiSizes, served, listLog, detailLog, repeated, failures, settled,
               delays>>
urlVars == <<repoUrl, parsed>>
genVars == <<gpc, env, openai, shouldPublish, selectedProvider, providerLog,
             providerResponse, finalChangelog, publishLog, publishFailed, result,
             error>>
routeVars == <<rpc, request, githubPat, httpResponse>>
vars == <<truncVars, fetchVars, urlVars, genVars, routeVars>>

NoSummary == [none |-> TRUE]
NoResponse == [data |-> <<>>, next |-> FALSE]

NotParsed == [none |-> TRUE]
NoProviderResponse == [none |-> TRUE]

NoRequest == [none |-> TRUE]
NoHttpResponse == [none |-> TRUE]

\* no request is being handled
RouteIdle ==
    /\ rpc = "idle" /\ request = NoRequest /\ githubPat = FALSE
    /\ httpResponse = NoHttpResponse

\* no URL is being parsed
UrlIdle == repoUrl = <<>> /\ parsed = NotParsed

\* no generator exists
GenIdle ==
    /\ gpc = "idle" /\ env = [greptile |-> FALSE, openai |-> FALSE]
    /\ openai = FALSE /\ shouldPublish = FALSE /\ selectedProvider = "none"
    /\ providerLog = <<>> /\ providerResponse = NoProviderResponse
    /\ finalChangelog = <<>> /\ publishLog = <<>> /\ publishFailed = FALSE
    /\ result = <<>> /\ error = ""

\* the fetcher at rest, as it is while only the truncator is looked at
FetchIdle ==
    /\ fpc = "idle" /\ page = 1 /\ allCommits = <<>> /\ hasMore = TRUE
    /\ response = NoResponse /\ pending = {} /\ arrived = <<>>
    /\ summary = NoSummary /\ apiSizes = {} /\ served = 0 /\ listLog = <<>>
    /\ detailLog = {} /\ repeated = FALSE /\ failures = 0 /\ settled = 0
    /\ delays = 0

\* ------------------------------------------------------------ diff-blocks
\* Bounds of the truncator's inputs.
MaxBlocks == 62
FewBlocks == 3
MaxLines == 5

\* few blocks, or about as many as the block cut keeps (60)
BlockCounts == (1..FewBlocks) \cup ((MaxBlocks - 3)..MaxBlocks)

HeaderWidths == {0, 40, 200}
ContentWidths == {0, 200, 201, 12000}
GiantWidth == 13000
Ceilings == {PER_DIFF_BUDGET, MAX_DIFF_LENGTH \div 2, MAX_DIFF_LENGTH,
             MAX_DIFF_LENGTH + PER_DIFF_BUDGET, 4 * MAX_DIFF_LENGTH}

Chars(c, n) == IF n = 0 THEN <<>> ELSE << <<c, n>> >>

\* Block i with nl lines: the first line is "C" followed by i characters "s"
\* (the commit line, which tells the blocks apart), lines 2 and 3 are hw
\* characters "h", every later line (the patch) is cw characters "p".
Block(i, nl, hw, cw) ==
    Join([k \in 1..nl |->
            IF k = 1 THEN << <<"C", 1>>, <<"s", i>> >>
            ELSE IF k <= HEADER_LINES THEN Chars("h", hw)
            ELSE Chars("p", cw)],
         << <<NL, 1>> >>)

\* n blocks of one shape; with giantTail the last block has giant header lines
Blocks(n, nl, hw, cw, giantTail) ==
    [i \in 1..n |->
        IF giantTail /\ i = n THEN Block(i, HEADER_LINES, GiantWidth, 0)
        ELSE Block(i, nl, hw, cw)]

\* The blocks whose commit line appears in text, in the order of appearance:
\* a commit line starts the text or follows a newline.
CommitLineStarts(text) ==
    SelectSeq([k \in 1..Len(text) |-> k],
              LAMBDA k : text[k][1] = "C" /\ (k = 1 \/ text[k - 1][1] = NL))

RetainedIds(text) ==
    LET starts == CommitLineStarts(text)
    IN  [j \in 1..Len(starts) |->
            IF starts[j] < Len(text) /\ text[starts[j] + 1][1] = "s"
            THEN text[starts[j] + 1][2] ELSE 0]

Retained(text) == Len(CommitLineStarts(text))

\* ------------------------------------------------------------ truncator runs
InitTrunc ==
    /\ \E n \in BlockCounts, nl \in 1..MaxLines, hw \in HeaderWidths,
          cw \in ContentWidths, giantTail \in BOOLEAN :
          diffs = Blocks(n, nl, hw, cw, giantTail)
    /\ ceiling = MAX_DIFF_LENGTH
    /\ truncated = <<>>
    /\ tpc = "start"
    /\ FetchIdle /\ UrlIdle /\ GenIdle /\ RouteIdle

\* const truncatedDiffText = this.truncateDiffs(diff.diffs)
Truncate ==
    /\ tpc = "start"
    /\ truncated' = truncateDiffs(diffs)
    /\ tpc' = "done"
    /\ UNCHANGED <<routeVars, diffs, ceiling, fetchVars, urlVars, genVars>>

\* the same blocks truncated again under another ceiling
TruncateAt ==
    /\ tpc = "done"
    /\ \E c \in Ceilings \ {ceiling} :
          /\ ceiling' = c
          /\ truncated' = TruncateDiffsAt(diffs, c)
    /\ UNCHANGED <<routeVars, diffs, tpc, fetchVars, urlVars, genVars>>

NextTrunc == Truncate \/ TruncateAt

SpecTrunc == InitTrunc /\ [][NextTrunc]_vars

\* ------------------------------------------------------------ hosting API
\* Bounds of the fetcher's runs: pages of at most MaxFanout commits have their
\* detail responses interleaved one by one, and such an API lists at most
\* MaxPages pages.
MaxFanout == 3
MaxPages == 2

\* The page sizes an API answers with: small pages, or (nearly) full pages.
SmallPages == 0..MaxFanout
FullPages == {MAX_PER_PAGE - 1, MAX_PER_PAGE}

\* an API whose pages are empty or hold one commit and may name a next page
\* all the same, for at most MaxSparsePages pages
MaxSparsePages == 31
SparsePages == {0, 1}

\* a window with more commits than the ceiling: every page is full and names
\* a next page
EndlessPages == {MAX_PER_PAGE}

\* The repository: commit number k of the window has sha k.  Its detail
\* (CommitData) has stats, a message, a date and sha % 4 files; a file's patch
\* is text, absent or the empty string.
RepoFile(sha, j) ==
    LET kind == (sha + j) % 4
    IN  IF kind = 2 THEN [filename |-> j]
        ELSE IF kind = 3 THEN [filename |-> j, patch |-> <<>>]
        ELSE [filename |-> j, patch |-> << <<"p", 1 + kind>> >>]

RepoCommit(sha) ==
    [sha |-> sha,
     commit |-> [message |-> << <<"m", 1 + (sha % 2)>> >>, date |-> sha % 7],
     stats |-> [additions |-> sha % 4, deletions |-> (sha \div 2) % 3],
     files |-> [j \in 1..(sha % 4) |-> RepoFile(sha, j)]]

\* ------------------------------------------------------------ getRepoDiff
\* commit.sha.substring(0, 7): shas are numbered below 10^7 and a sha stands
\* for its seven leading characters
SHA_PREFIX == 7
ShaPrefix(sha) == sha % (10 ^ SHA_PREFIX)

\* a patch that is the empty string counts as a patch
HasPatchField(file) == "patch" \in DOMAIN file

\* if (file.patch)
HasPatch(file) == "patch" \in DOMAIN file /\ file.patch # <<>>

\* the template string of summary.diffs.push(...), field by field
DiffBlock(c, file) ==
    <<ShaPrefix(c.sha), c.commit.date, c.commit.message, file.filename, file.patch>>

\* commit.files.forEach(...)
CommitBlocks(c) ==
    LET patched == SelectSeq(c.files, HasPatch)
    IN  [k \in 1..Len(patched) |-> DiffBlock(c, patched[k])]

\* commits.forEach(...) over commits[lo..hi], folded by halves
RECURSIVE Aggregate(_, _, _)
Aggregate(commits, lo, hi) ==
    IF lo > hi THEN [additions |-> 0, deletions |-> 0, diffs |-> <<>>]
    ELSE IF lo = hi
    THEN LET c == RepoCommit(commits[lo])
         IN  [additions |-> c.stats.additions, deletions |-> c.stats.deletions,
              diffs |-> CommitBlocks(c)]
    ELSE LET mid == (lo + hi) \div 2
             l == Aggregate(commits, lo, mid)
             r == Aggregate(commits, mid + 1, hi)
         IN  [additions |-> l.additions + r.additions,
              deletions |-> l.deletions + r.deletions,
              diffs |-> l.diffs \o r.diffs]

\* the ceiling test is strict
HitCeilingStrict(n) == n > MAX_TOTAL_COMMITS

\* commits.length >= MAX_TOTAL_COMMITS
HitCeiling(n) == n >= MAX_TOTAL_COMMITS

\* the deletions are added instead of subtracted
NetDiffSum(additions, deletions) == additions + deletions

\* summary.additions - summary.deletions
NetDiff(additions, deletions) == additions - deletions

\* the DiffSummary getRepoDiff builds (its period, the two dates handed in,
\* is left out)
BuildSummary(commits) ==
    LET agg == Aggregate(commits, 1, Len(commits))
    IN  [additions |-> agg.additions,
         deletions |-> agg.deletions,
         netDiff |-> NetDiff(agg.additions, agg.deletions),
         diffs |-> agg.diffs,
         totalCommits |-> Len(commits),
         hasMore |-> HitCeiling(Len(commits))]

\* ------------------------------------------------------------ getAllCommits
\* while (hasMore && allCommits.length < MAX_TOTAL_COMMITS)
LoopCondition == hasMore /\ Len(allCommits) < MAX_TOTAL_COMMITS

\* the next list request goes out while the delay is still running
LoopReadyNoDelay(pc) == pc \in {"loop", "delay"}

\* the loop body starts over only after `await new Promise(... setTimeout ...)`
LoopReady(pc) == pc = "loop"

\* a failed request is tried again
OnFailureRetry == "loop"

\* no try/catch in getAllCommits, and getRepoDiff rethrows: a failed await
\* ends the fetch
OnFailure == "threw"

\* the details are appended as they arrive
ResultsByArrival(data, arrival) == [i \in 1..Len(data) |-> data[arrival[i]]]

\* what Promise.all resolves to: the details in the order of response.data
PromiseAllResult(data, arrival) == [i \in 1..Len(data) |-> data[i]]

\* The detail responses that may come in next: any single one, or, for a page
\* too large to interleave, the whole page at once in the order of the list.
Batches(pend) ==
    IF Cardinality(pend) <= MaxFanout THEN {{x} : x \in pend} ELSE {pend}

BatchPositions(batch) ==
    IF Cardinality(batch) = 1 THEN <<(CHOOSE x \in batch : TRUE)[2]>>
    ELSE [i \in 1..Cardinality(batch) |-> i]

InitFetch ==
    /\ fpc = "loop" /\ page = 1 /\ allCommits = <<>> /\ hasMore = TRUE
    /\ response = NoResponse /\ pending = {} /\ arrived = <<>>
    /\ summary = NoSummary
    /\ apiSizes \in {SmallPages, FullPages}
    /\ served = 0 /\ listLog = <<>> /\ detailLog = {} /\ repeated = FALSE
    /\ failures = 0 /\ settled = 0 /\ delays = 0

\* axios.get(.../commits, {page}) is issued
ListRequest ==
    /\ LoopReady(fpc)
    /\ LoopCondition
    /\ fpc' = "list"
    /\ listLog' = Append(listLog, page)
    /\ UNCHANGED <<routeVars, truncVars, urlVars, genVars, page, allCommits, hasMore, response, pending, arrived, summary,
                   apiSizes, served, detailLog, repeated, failures, settled, delays>>

\* the list response arrives and Promise.all(response.data.map(...)) issues
\* one detail request per listed commit
ListResponse ==
    /\ fpc = "list"
    /\ \E k \in apiSizes, next \in BOOLEAN :
          /\ next => \/ Len(listLog) < MaxPages
                      \/ apiSizes \in {FullPages, EndlessPages}
                      \/ (apiSizes = SparsePages /\ Len(listLog) < MaxSparsePages)
          /\ apiSizes = EndlessPages => next
          /\ response' = [data |-> [i \in 1..k |-> served + i], next |-> next]
          /\ served' = served + k
          /\ pending' = pending \cup {<<page, i>> : i \in 1..k}
          /\ detailLog' = detailLog \cup {served + i : i \in 1..k}
          /\ repeated' = (repeated \/ \E i \in 1..k : served + i \in detailLog)
    /\ arrived' = <<>>
    /\ fpc' = "details"
    /\ UNCHANGED <<routeVars, truncVars, urlVars, genVars, page, allCommits, hasMore, summary, apiSizes, listLog, failures,
                   settled, delays>>

\* the list request fails
ListFailure ==
    /\ fpc = "list"
    /\ fpc' = OnFailure
    /\ failures' = failures + 1
    /\ UNCHANGED <<routeVars, truncVars, urlVars, genVars, page, allCommits, hasMore, response, pending, arrived, summary,
                   apiSizes, served, listLog, detailLog, repeated, settled, delays>>

\* detail responses arrive (after a failure nobody waits for them any more)
DetailResponse ==
    /\ \E batch \in Batches(pending) :
          /\ pending' = pending \ batch
          /\ arrived' = IF fpc = "details" THEN arrived \o BatchPositions(batch)
                        ELSE arrived
    /\ UNCHANGED <<routeVars, truncVars, urlVars, genVars, fpc, page, allCommits, hasMore, response, summary, apiSizes,
                   served, listLog, detailLog, repeated, failures, settled, delays>>

\* a detail request fails: Promise.all rejects at once
DetailFailure ==
    /\ \E batch \in Batches(pending) : pending' = pending \ batch
    /\ fpc' = IF fpc = "details" THEN OnFailure ELSE fpc
    /\ failures' = failures + 1
    /\ UNCHANGED <<routeVars, truncVars, urlVars, genVars, page, allCommits, hasMore, response, arrived, summary, apiSizes,
                   served, listLog, detailLog, repeated, settled, delays>>

\* Promise.all resolves: allCommits = [...allCommits, ...commitDetails],
\* hasMore from the link header, page++
PromiseAllResolve ==
    /\ fpc = "details"
    /\ Len(arrived) = Len(response.data)
    /\ allCommits' = allCommits \o PromiseAllResult(response.data, arrived)
    /\ hasMore' = response.next
    /\ page' = page + 1
    /\ settled' = settled + 1
    /\ fpc' = "delay"
    /\ UNCHANGED <<routeVars, truncVars, urlVars, genVars, response, pending, arrived, summary, apiSizes, served, listLog,
                   detailLog, repeated, failures, delays>>

\* setTimeout(resolve, 100) fires
DelayElapsed ==
    /\ fpc = "delay"
    /\ delays' = delays + 1
    /\ fpc' = "loop"
    /\ UNCHANGED <<routeVars, truncVars, urlVars, genVars, page, allCommits, hasMore, response, pending, arrived, summary,
                   apiSizes, served, listLog, detailLog, repeated, failures, settled>>

\* the loop ends: return allCommits
LoopExit ==
    /\ fpc = "loop"
    /\ ~LoopCondition
    /\ fpc' = "aggregate"
    /\ UNCHANGED <<routeVars, truncVars, urlVars, genVars, page, allCommits, hasMore, response, pending, arrived, summary,
                   apiSizes, served, listLog, detailLog, repeated, failures, settled,
                   delays>>

\* getRepoDiff builds and returns the summary
ReturnSummary ==
    /\ fpc = "aggregate"
    /\ summary' = BuildSummary(allCommits)
    /\ fpc' = "returned"
    /\ UNCHANGED <<routeVars, truncVars, urlVars, genVars, page, allCommits, hasMore, response, pending, arrived, apiSizes,
                   served, listLog, detailLog, repeated, failures, settled, delays>>

TruncIdle ==
    /\ diffs = <<>> /\ ceiling = MAX_DIFF_LENGTH /\ truncated = <<>> /\ tpc = "idle"

Init == TruncIdle /\ InitFetch /\ UrlIdle /\ GenIdle /\ RouteIdle

Next ==
    \/ ListRequest
    \/ ListResponse
    \/ ListFailure
    \/ DetailResponse
    \/ DetailFailure
    \/ PromiseAllResolve
    \/ DelayElapsed
    \/ LoopExit
    \/ ReturnSummary

Spec == Init /\ [][Next]_vars

\* the fetcher against an API of sparse pages
InitPages ==
    /\ fpc = "loop" /\ page = 1 /\ allCommits = <<>> /\ hasMore = TRUE
    /\ response = NoResponse /\ pending = {} /\ arrived = <<>>
    /\ summary = NoSummary
    /\ apiSizes = SparsePages
    /\ served = 0 /\ listLog = <<>> /\ detailLog = {} /\ repeated = FALSE
    /\ failures = 0 /\ settled = 0 /\ delays = 0
    /\ TruncIdle /\ UrlIdle /\ GenIdle /\ RouteIdle

SpecPages == InitPages /\ [][Next]_vars


\* ------------------------------------------------------------ truncator claims
\* Length of the blocks joined with a blank line, counted block by block.
RECURSIVE LengthsUpTo(_, _)
LengthsUpTo(d, k) == IF k = 0 THEN 0 ELSE LengthsUpTo(d, k - 1) + StrLen(d[k])

JoinedLength(d) ==
    IF Len(d) = 0 THEN 0 ELSE LengthsUpTo(d, Len(d)) + 2 * (Len(d) - 1)

\* text begins with the string p
StartsWith(text, p) ==
    \/ p = <<>>
    \/ /\ Len(text) >= Len(p)
       /\ \A k \in 1..(Len(p) - 1) : text[k] = p[k]
       /\ text[Len(p)][1] = p[Len(p)][1]
       /\ text[Len(p)][2] >= p[Len(p)][2]

\* text without its beginning p
DropPrefix(text, p) ==
    IF p = <<>> THEN text
    ELSE LET k == Len(p)
             extra == text[k][2] - p[k][2]
         IN  (IF extra > 0 THEN << <<text[k][1], extra>> >> ELSE <<>>)
             \o SubSeq(text, k + 1, Len(text))

\* text is d[i], "\n\n", d[i+1], "\n\n", ..., d[Len(d)] and nothing more
RECURSIVE IsJoinFrom(_, _, _)
IsJoinFrom(text, d, i) ==
    /\ StartsWith(text, d[i])
    /\ LET rest == DropPrefix(text, d[i])
       IN  IF i = Len(d) THEN rest = <<>>
           ELSE /\ StartsWith(rest, BlankLine)
                /\ IsJoinFrom(DropPrefix(rest, BlankLine), d, i + 1)

\* C1: whenever the joined blocks exceed the ceiling MAX_DIFF_LENGTH, the
\* string truncateDiffs returns is at most MAX_DIFF_LENGTH characters long.
C1_OutputWithinCeiling ==
    (tpc = "done" /\ ceiling = MAX_DIFF_LENGTH /\ JoinedLength(diffs) > MAX_DIFF_LENGTH)
        => StrLen(truncated) <= MAX_DIFF_LENGTH

\* C2: whenever the joined blocks of a non-empty sequence fit the ceiling, the
\* returned string is the joined text: every block stands unaltered at its
\* place, blocks are separated by exactly "\n\n", and nothing else is there.
C2_IdentityWithinCeiling ==
    (tpc = "done" /\ Len(diffs) >= 1 /\ JoinedLength(diffs) <= ceiling)
        => /\ StrLen(truncated) = JoinedLength(diffs)
           /\ IsJoinFrom(truncated, diffs, 1)

\* C2 witness: several blocks with patches longer than 200 characters were
\* returned in full because together they fit the ceiling.
C2_Witness ==
    /\ tpc = "done" /\ ceiling = MAX_DIFF_LENGTH
    /\ Len(diffs) >= 2
    /\ JoinedLength(diffs) > MAX_TOKENS
    /\ JoinedLength(diffs) <= MAX_DIFF_LENGTH
    /\ truncated # <<>>

\* C3: truncating the same blocks under a ceiling at least as high never
\* retains fewer leading blocks.
C3_RetainedMonotone ==
    [][(tpc = "done" /\ tpc' = "done" /\ ceiling' >= ceiling)
          => Retained(truncated') >= Retained(truncated)]_vars

\* C3 witness: under a ceiling above MAX_DIFF_LENGTH more blocks are retained
\* than truncateDiffs retains, which cut the sequence to its leading blocks.
C3_Witness ==
    /\ tpc = "done" /\ ceiling > MAX_DIFF_LENGTH
    /\ Retained(truncateDiffs(diffs)) < Len(diffs)
    /\ Retained(truncated) > Retained(truncateDiffs(diffs))

\* C4: the blocks in the output are the first k input blocks, in input order,
\* for some k: the j-th commit line of the output is the commit line of the
\* j-th input block.
C4_PrefixOrder ==
    tpc = "done" =>
        LET ids == RetainedIds(truncated)
        IN  /\ Len(ids) <= Len(diffs)
            /\ \A j \in 1..Len(ids) : <<ids[j]>> = RetainedIds(diffs[j])

\* C4 witness: the block cut dropped trailing blocks and kept leading ones.
C4_Witness ==
    /\ tpc = "done" /\ ceiling = MAX_DIFF_LENGTH
    /\ Retained(truncated) > 0
    /\ Retained(truncated) < Len(diffs)

\* ------------------------------------------------------------ fetcher claims
\* additions and deletions of commits[lo..hi], summed from the repository
RECURSIVE StatTotal(_, _, _, _)
StatTotal(commits, stat, lo, hi) ==
    IF lo > hi THEN 0
    ELSE IF lo = hi THEN RepoCommit(commits[lo]).stats[stat]
    ELSE LET mid == (lo + hi) \div 2
         IN  StatTotal(commits, stat, lo, mid) + StatTotal(commits, stat, mid + 1, hi)

\* block a comes before block b: an earlier commit, or the same commit and an
\* earlier file
BlockBefore(a, b) == a[1] < b[1] \/ (a[1] = b[1] /\ a[4] < b[4])

\* C5: with pages of at most 100 commits, getAllCommits never returns more
\* than MAX_TOTAL_COMMITS = 3000 commits.
C5_AtMostCeiling ==
    fpc \in {"aggregate", "returned"} => Len(allCommits) <= MAX_TOTAL_COMMITS

\* C6: once a request has failed the fetch has failed as a whole (getRepoDiff
\* threw and returned no summary), and no list page and no commit detail is
\* ever requested twice.
C6_FailureIsTotal ==
    /\ failures > 0 => (fpc = "threw" /\ summary = NoSummary)
    /\ \A i, j \in DOMAIN listLog : listLog[i] = listLog[j] => i = j
    /\ ~repeated

\* C6 witness: a request failed after earlier pages had been fetched.
C6_Witness ==
    /\ failures > 0 /\ fpc = "threw"
    /\ Len(allCommits) > 0 /\ Len(listLog) >= 2

\* C7: the list of page p is requested only after p - 1 pages have settled
\* (list and all details) and p - 1 delays have elapsed; no detail request is
\* in flight while a list request is, and all detail requests in flight
\* belong to one page.
C7_PagesSequential ==
    /\ \A i \in DOMAIN listLog :
          listLog[i] <= settled + 1 /\ listLog[i] <= delays + 1
    /\ fpc = "list" => pending = {}
    /\ \A x, y \in pending : x[1] = y[1]

\* C7 witness: several details of the second page are in flight.
C7_Witness ==
    /\ fpc = "details" /\ page = 2 /\ Len(listLog) = 2
    /\ Cardinality(pending) >= 2
    /\ settled = 1 /\ delays = 1

\* C8: allCommits is in the order of the list responses (the API lists the
\* shas 1, 2, 3, ...), and the diff-blocks are in commit order, then file
\* order, whatever order the details arrived in.
C8_ListOrder ==
    /\ \A i \in 1..Len(allCommits) : allCommits[i] = i
    /\ summary # NoSummary =>
          \A k \in 1..(Len(summary.diffs) - 1) :
              BlockBefore(summary.diffs[k], summary.diffs[k + 1])

\* C8 witness: a summary with several blocks was built although the details
\* of the last page arrived out of list order.
C8_Witness ==
    /\ summary # NoSummary /\ Len(summary.diffs) >= 2
    /\ Len(arrived) >= 2 /\ arrived[1] > arrived[2]

\* C9: in every returned summary totalCommits is the number of commits
\* fetched and hasMore is true exactly if that number is at least 3000.
C9_HasMoreIffCeiling ==
    summary # NoSummary =>
        /\ summary.totalCommits = Len(allCommits)
        /\ summary.hasMore <=> summary.totalCommits >= MAX_TOTAL_COMMITS

\* C9 witness: exactly 3000 commits were fetched and hasMore is set.
C9_Witness ==
    /\ summary # NoSummary
    /\ summary.totalCommits = MAX_TOTAL_COMMITS
    /\ summary.hasMore

\* C10: in every returned summary netDiff is additions minus deletions, and
\* these are the sums of the stats of all fetched commits.
C10_NetDiff ==
    summary # NoSummary =>
        /\ summary.additions = StatTotal(allCommits, "additions", 1, Len(allCommits))
        /\ summary.deletions = StatTotal(allCommits, "deletions", 1, Len(allCommits))
        /\ summary.netDiff = summary.additions - summary.deletions

\* C10 witness: a summary over several commits with additions and deletions.
C10_Witness ==
    /\ summary # NoSummary /\ summary.totalCommits >= 2
    /\ summary.additions > 0 /\ summary.deletions > 0
    /\ summary.netDiff # 0

\* file j of commit sha has a patch that is present and not empty, read from
\* the repository
IsPatched(sha, j) ==
    LET files == RepoCommit(sha).files
    IN  /\ j \in 1..Len(files)
        /\ "patch" \in DOMAIN files[j]
        /\ files[j].patch # <<>>

\* the number of such (commit, file) pairs among commits[lo..hi]
RECURSIVE PatchedCount(_, _, _)
PatchedCount(commits, lo, hi) ==
    IF lo > hi THEN 0
    ELSE IF lo = hi
    THEN Cardinality({j \in 1..Len(RepoCommit(commits[lo]).files) :
                         IsPatched(commits[lo], j)})
    ELSE LET mid == (lo + hi) \div 2
         IN  PatchedCount(commits, lo, mid) + PatchedCount(commits, mid + 1, hi)

\* C11: the summary holds exactly one diff-block per (commit, file) pair with
\* a present, non-empty patch and none for any other file (every block is such
\* a pair of a fetched commit, the blocks are strictly ordered and so no pair
\* comes twice, and there are as many blocks as pairs), while additions and
\* deletions sum the stats of every fetched commit.
C11_OneBlockPerPatch ==
    summary # NoSummary =>
        /\ \A k \in 1..Len(summary.diffs) :
              LET d == summary.diffs[k]
              IN  /\ d[1] \in 1..Len(allCommits) /\ allCommits[d[1]] = d[1]
                  /\ IsPatched(d[1], d[4])
        /\ \A k \in 1..(Len(summary.diffs) - 1) :
              BlockBefore(summary.diffs[k], summary.diffs[k + 1])
        /\ Len(summary.diffs) = PatchedCount(allCommits, 1, Len(allCommits))
        /\ summary.additions = StatTotal(allCommits, "additions", 1, Len(allCommits))
        /\ summary.deletions = StatTotal(allCommits, "deletions", 1, Len(allCommits))

\* C11 witness: the fetched commits include one whose only file has no patch
\* and whose stats are not zero, one file with an empty patch, and files with
\* patches.
C11_Witness ==
    /\ summary # NoSummary
    /\ Len(allCommits) >= 2
    /\ allCommits[1] = 1 /\ RepoCommit(1).stats.additions > 0
    /\ Len(RepoCommit(1).files) = 1 /\ ~HasPatchField(RepoCommit(1).files[1])
    /\ HasPatchField(RepoCommit(2).files[1]) /\ RepoCommit(2).files[1].patch = <<>>
    /\ Len(summary.diffs) >= 1
    /\ summary.additions > 0

\* ------------------------------------------------------------ parseGitHubUrl
\* A URL is the sequence of its characters.
HOST_PREFIX == <<"h", "t", "t", "p", "s", ":", "/", "/", "g", "i", "t", "h", "u", "b", ".", "c", "o", "m", "/">>
DOT_GIT == <<".", "g", "i", "t">>
SLASH == <<"/">>

\* what reading a missing array element yields
Undefined == <<"undefined">>

\* String.prototype.indexOf: where pat first begins in s, 0 when nowhere
IndexOf(s, pat) ==
    LET starts == {i \in 1..(Len(s) - Len(pat) + 1) : SubSeq(s, i, i + Len(pat) - 1) = pat}
    IN  IF starts = {} THEN 0 ELSE CHOOSE i \in starts : \A k \in starts : i <= k

\* String.prototype.replace with a string pattern: the first occurrence only
ReplaceFirst(s, pat, by) ==
    LET i == IndexOf(s, pat)
    IN  IF i = 0 THEN s
        ELSE SubSeq(s, 1, i - 1) \o by \o SubSeq(s, i + Len(pat), Len(s))

\* String.prototype.split with a one-character separator
Split(s, sep) ==
    LET at == {i \in 1..Len(s) : s[i] = sep}
        n == Cardinality(at)
        cut(k) == IF k = 0 THEN 0
                  ELSE IF k = n + 1 THEN Len(s) + 1
                  ELSE CHOOSE i \in at : Cardinality({j \in at : j < i}) = k - 1
    IN  [k \in 1..(n + 1) |-> SubSeq(s, cut(k - 1) + 1, cut(k) - 1)]

\* arr[k - 1] of JavaScript, elements being counted from 1 here
ArrayAt(arr, k) == IF k \in 1..Len(arr) THEN arr[k] ELSE Undefined

\* what calling a method of undefined ends in
TypeErrorThrown == [threw |-> "TypeError"]

\* the repository is looked for where it stands in "owner/repo"
RepoPartSecond(n) == 2

\* parts[parts.length - 1]
RepoPart(n) == n

parseGitHubUrl(url) ==
    LET parts == Split(ReplaceFirst(url, HOST_PREFIX, <<>>), "/")
        n == Len(parts)
        last == ArrayAt(parts, RepoPart(n))
    IN  IF last = Undefined THEN TypeErrorThrown
        ELSE [owner |-> ArrayAt(parts, n - 1),
              repo |-> ReplaceFirst(last, DOT_GIT, <<>>)]

\* The URLs parsed: owners and repositories of the hosting service, a
\* repository segment as it is or with ".git" or "/" behind it, and two strings
\* that are no URL.
Owners == {<<"f", "a", "c", "e", "b", "o", "o", "k">>,
           <<"m", "i", "c", "r", "o", "s", "o", "f", "t">>,
           <<"r", "s", "t", "u", "d", "i", "o">>,
           <<"o", "c", "t", "o", "c", "a", "t">>}
Repos == {<<"r", "e", "a", "c", "t">>,
          <<"v", "s", "c", "o", "d", "e">>,
          <<"m", "a", "r", "i", "m", "o">>,
          <<"o", "c", "t", "o", "c", "a", "t", ".", "g", "i", "t", "h", "u", "b", ".", "i", "o">>,
          <<"r", "e", ".", "g", "i", "t", "a", "c", "t">>}
Suffixes == {<<>>, DOT_GIT, SLASH}
RepoUrl(owner, repo, suffix) == HOST_PREFIX \o owner \o SLASH \o repo \o suffix
Urls ==
    {RepoUrl(o, r, x) : o \in Owners, r \in Repos, x \in Suffixes}
        \cup {<<>>, <<"r", "e", "a", "c", "t">>}

InitUrl ==
    /\ repoUrl \in Urls /\ parsed = NotParsed
    /\ TruncIdle /\ FetchIdle /\ GenIdle /\ RouteIdle

ParseGitHubUrl ==
    /\ parsed = NotParsed
    /\ parsed' = parseGitHubUrl(repoUrl)
    /\ UNCHANGED <<routeVars, repoUrl, truncVars, fetchVars, genVars>>

\* the same URL parsed again, as getRepoDiff, selectLLMProvider and
\* generateWithGreptile each do within one run
ParseAgain ==
    /\ parsed # NotParsed
    /\ parsed' = parseGitHubUrl(repoUrl)
    /\ UNCHANGED <<routeVars, repoUrl, truncVars, fetchVars, genVars>>

NextUrl == ParseGitHubUrl \/ ParseAgain

SpecUrl == InitUrl /\ [][NextUrl]_vars

\* C20: for 'https://github.com/<owner>/<repo>' and the same with '.git'
\* behind it, parseGitHubUrl returns the owner and the repository segment as
\* they stand in the URL: only the trailing '.git' is taken away.
C20_TrailingGitOnly ==
    parsed # NotParsed =>
        \A o \in Owners, r \in Repos, x \in {<<>>, DOT_GIT} :
            repoUrl = RepoUrl(o, r, x) => parsed = [owner |-> o, repo |-> r]

\* ------------------------------------------------------------ diff-block text
\* The template string of summary.diffs.push(...) written out.  A date d is
\* day d + 1 of January 2024 at midnight, a file is named by its number, and a
\* sha is written with seven digits.
COMMIT_LABEL ==
    << <<"C", 1>>, <<"o", 1>>, <<"m", 2>>, <<"i", 1>>, <<"t", 1>>,
       <<":", 1>>, <<" ", 1>> >>
DATE_DASH == << <<" ", 1>>, <<"-", 1>>, <<" ", 1>> >>
MESSAGE_LABEL ==
    << <<NL, 1>>, <<"M", 1>>, <<"e", 1>>, <<"s", 2>>, <<"a", 1>>, <<"g", 1>>,
       <<"e", 1>>, <<":", 1>>, <<" ", 1>> >>
FILE_LABEL ==
    << <<NL, 1>>, <<"F", 1>>, <<"i", 1>>, <<"l", 1>>, <<"e", 1>>, <<":", 1>>,
       <<" ", 1>> >>
DATE_HEAD ==
    << <<"2", 1>>, <<"0", 1>>, <<"2", 1>>, <<"4", 1>>, <<"-", 1>>,
       <<"0", 1>>, <<"1", 1>>, <<"-", 1>>, <<"0", 1>> >>
DATE_TAIL ==
    << <<" ", 1>>, <<"0", 2>>, <<":", 1>>, <<"0", 2>>, <<":", 1>>,
       <<"0", 2>> >>

\* format(commitDate, 'yyyy-MM-dd HH:mm:ss')
FormatDate(d) == Cat(Cat(DATE_HEAD, << <<Digit(d + 1), 1>> >>), DATE_TAIL)

\* commit.sha.substring(0, 7) as text
ShaText(sha7) ==
    LET digits == NatStr(sha7)
        pad == SHA_PREFIX - StrLen(digits)
    IN  IF pad > 0 THEN Cat(<< <<"0", pad>> >>, digits) ELSE digits

BlockText(b) ==
    Cat(Cat(Cat(Cat(Cat(Cat(Cat(Cat(COMMIT_LABEL, ShaText(b[1])), DATE_DASH),
                            FormatDate(b[2])), MESSAGE_LABEL), b[3]), FILE_LABEL),
            NatStr(b[4])),
        Cat(<< <<NL, 1>> >>, b[5]))

BlockTexts(blocks) == [k \in 1..Len(blocks) |-> BlockText(blocks[k])]

\* ------------------------------------------------------------ providers
\* private indexedRepos: 'owner/repo' names
indexedRepos ==
    {<<"f", "a", "c", "e", "b", "o", "o", "k", "/", "r", "e", "a", "c", "t">>,
     <<"m", "i", "c", "r", "o", "s", "o", "f", "t", "/", "v", "s", "c", "o", "d", "e">>,
     <<"r", "s", "t", "u", "d", "i", "o", "/", "m", "a", "r", "i", "m", "o">>}

\* `${owner}/${repo}`
FullRepoName(p) == p.owner \o SLASH \o p.repo

\* OpenAI is asked first
selectOpenAIFirst(url, e) ==
    IF e.openai THEN "openai"
    ELSE IF FullRepoName(parseGitHubUrl(url)) \in indexedRepos /\ e.greptile
    THEN "greptile"
    ELSE "throw"

\* selectLLMProvider: the provider's name, or "throw" for the error
selectLLMProvider(url, e) ==
    IF FullRepoName(parseGitHubUrl(url)) \in indexedRepos /\ e.greptile THEN "greptile"
    ELSE IF e.openai THEN "openai"
    ELSE "throw"

NO_PROVIDER_ERROR ==
    "No LLM provider enabled. Set either ENABLE_GREPTILE=true or ENABLE_OPENAI=true"
OPENAI_NOT_INITIALIZED == "OpenAI client not initialized"
OPENAI_REQUEST_ERROR == "OpenAI request failed"
GREPTILE_REQUEST_ERROR == "Greptile API request failed"
GREPTILE_NO_CONTENT == "No changelog content received from Greptile"
GRAMAPHONE_ERROR == "Failed to submit to Gramaphone"
HOSTING_API_ERROR == "hosting API request failed"

\* 'No changelog generated'
NO_CHANGELOG_GENERATED ==
    << <<"N", 1>>, <<"o", 1>>, <<" ", 1>>, <<"c", 1>>, <<"h", 1>>,
       <<"a", 1>>, <<"n", 1>>, <<"g", 1>>, <<"e", 1>>, <<"l", 1>>,
       <<"o", 1>>, <<"g", 1>>, <<" ", 1>>, <<"g", 1>>, <<"e", 1>>,
       <<"n", 1>>, <<"e", 1>>, <<"r", 1>>, <<"a", 1>>, <<"t", 1>>,
       <<"e", 1>>, <<"d", 1>> >>
\* '\n\n_Generated with: OpenAI GPT-4_'
OPENAI_FOOTER ==
    << <<NL, 2>>, <<"_", 1>>, <<"G", 1>>, <<"e", 1>>, <<"n", 1>>, <<"e", 1>>,
       <<"r", 1>>, <<"a", 1>>, <<"t", 1>>, <<"e", 1>>, <<"d", 1>>,
       <<" ", 1>>, <<"w", 1>>, <<"i", 1>>, <<"t", 1>>, <<"h", 1>>,
       <<":", 1>>, <<" ", 1>>, <<"O", 1>>, <<"p", 1>>, <<"e", 1>>,
       <<"n", 1>>, <<"A", 1>>, <<"I", 1>>, <<" ", 1>>, <<"G", 1>>,
       <<"P", 1>>, <<"T", 1>>, <<"-", 1>>, <<"4", 1>>, <<"_", 1>> >>
\* '\n\n_Generated with: Greptile_'
GREPTILE_FOOTER ==
    << <<NL, 2>>, <<"_", 1>>, <<"G", 1>>, <<"e", 1>>, <<"n", 1>>, <<"e", 1>>,
       <<"r", 1>>, <<"a", 1>>, <<"t", 1>>, <<"e", 1>>, <<"d", 1>>,
       <<" ", 1>>, <<"w", 1>>, <<"i", 1>>, <<"t", 1>>, <<"h", 1>>,
       <<":", 1>>, <<" ", 1>>, <<"G", 1>>, <<"r", 1>>, <<"e", 1>>,
       <<"p", 1>>, <<"t", 1>>, <<"i", 1>>, <<"l", 1>>, <<"e", 1>>,
       <<"_", 1>> >>
\* the warning of generateChangelog; "!" stands for its warning sign
WARNING_MESSAGE ==
    << <<NL, 1>>, <<"!", 1>>, <<" ", 1>>, <<"N", 1>>, <<"o", 1>>, <<"t", 1>>,
       <<"e", 1>>, <<":", 1>>, <<" ", 1>>, <<"T", 1>>, <<"h", 1>>,
       <<"i", 1>>, <<"s", 1>>, <<" ", 1>>, <<"c", 1>>, <<"h", 1>>,
       <<"a", 1>>, <<"n", 1>>, <<"g", 1>>, <<"e", 1>>, <<"l", 1>>,
       <<"o", 1>>, <<"g", 1>>, <<" ", 1>>, <<"o", 1>>, <<"n", 1>>,
       <<"l", 1>>, <<"y", 1>>, <<" ", 1>>, <<"i", 1>>, <<"n", 1>>,
       <<"c", 1>>, <<"l", 1>>, <<"u", 1>>, <<"d", 1>>, <<"e", 1>>,
       <<"s", 1>>, <<" ", 1>>, <<"t", 1>>, <<"h", 1>>, <<"e", 1>>,
       <<" ", 1>>, <<"f", 1>>, <<"i", 1>>, <<"r", 1>>, <<"s", 1>>,
       <<"t", 1>>, <<" ", 1>>, <<"3", 1>>, <<"0", 3>>, <<" ", 1>>,
       <<"c", 1>>, <<"o", 1>>, <<"m", 2>>, <<"i", 1>>, <<"t", 1>>,
       <<"s", 1>>, <<" ", 1>>, <<"d", 1>>, <<"u", 1>>, <<"e", 1>>,
       <<" ", 1>>, <<"t", 1>>, <<"o", 1>>, <<" ", 1>>, <<"G", 1>>,
       <<"i", 1>>, <<"t", 1>>, <<"H", 1>>, <<"u", 1>>, <<"b", 1>>,
       <<" ", 1>>, <<"A", 1>>, <<"P", 1>>, <<"I", 1>>, <<" ", 1>>,
       <<"l", 1>>, <<"i", 1>>, <<"m", 1>>, <<"i", 1>>, <<"t", 1>>,
       <<"a", 1>>, <<"t", 1>>, <<"i", 1>>, <<"o", 1>>, <<"n", 1>>,
       <<"s", 1>>, <<".", 1>>, <<" ", 1>>, <<NL, 1>>, <<"T", 1>>, <<"h", 1>>,
       <<"e", 1>>, <<" ", 1>>, <<"a", 1>>, <<"c", 1>>, <<"t", 1>>,
       <<"u", 1>>, <<"a", 1>>, <<"l", 1>>, <<" ", 1>>, <<"n", 1>>,
       <<"u", 1>>, <<"m", 1>>, <<"b", 1>>, <<"e", 1>>, <<"r", 1>>,
       <<" ", 1>>, <<"o", 1>>, <<"f", 1>>, <<" ", 1>>, <<"c", 1>>,
       <<"h", 1>>, <<"a", 1>>, <<"n", 1>>, <<"g", 1>>, <<"e", 1>>,
       <<"s", 1>>, <<" ", 1>>, <<"d", 1>>, <<"u", 1>>, <<"r", 1>>,
       <<"i", 1>>, <<"n", 1>>, <<"g", 1>>, <<" ", 1>>, <<"t", 1>>,
       <<"h", 1>>, <<"i", 1>>, <<"s", 1>>, <<" ", 1>>, <<"p", 1>>,
       <<"e", 1>>, <<"r", 1>>, <<"i", 1>>, <<"o", 1>>, <<"d", 1>>,
       <<" ", 1>>, <<"m", 1>>, <<"a", 1>>, <<"y", 1>>, <<" ", 1>>,
       <<"b", 1>>, <<"e", 1>>, <<" ", 1>>, <<"l", 1>>, <<"a", 1>>,
       <<"r", 1>>, <<"g", 1>>, <<"e", 1>>, <<"r", 1>>, <<".", 1>>,
       <<NL, 2>> >>

\* a changelog a provider writes
SAMPLE_CHANGELOG ==
    << <<"#", 2>>, <<" ", 1>>, <<"B", 1>>, <<"u", 1>>, <<"g", 1>>,
       <<" ", 1>>, <<"F", 1>>, <<"i", 1>>, <<"x", 1>>, <<"e", 1>>,
       <<"s", 1>>, <<NL, 1>>, <<"-", 1>>, <<" ", 1>>, <<"f", 1>>, <<"i", 1>>,
       <<"x", 1>>, <<"e", 1>>, <<"d", 1>> >>

\* What a provider answers: the request fails (a rejected call, a status that
\* is not ok), or it succeeds with the content missing, empty or a changelog.
ProviderResponses ==
    {[ok |-> FALSE, present |-> FALSE, content |-> <<>>],
     [ok |-> TRUE, present |-> FALSE, content |-> <<>>],
     [ok |-> TRUE, present |-> TRUE, content |-> <<>>],
     [ok |-> TRUE, present |-> TRUE, content |-> SAMPLE_CHANGELOG]}

\* !value for a string that may be missing
Falsy(resp) == ~resp.present \/ resp.content = <<>>

\* generateWithOpenAI once the completion has settled
generateWithOpenAI(resp) ==
    IF ~resp.ok THEN [error |-> OPENAI_REQUEST_ERROR, text |-> <<>>]
    ELSE [error |-> "",
          text |-> Cat(IF Falsy(resp) THEN NO_CHANGELOG_GENERATED ELSE resp.content,
                       OPENAI_FOOTER)]

\* generateWithGreptile once the fetch has settled
generateWithGreptile(resp) ==
    IF ~resp.ok THEN [error |-> GREPTILE_REQUEST_ERROR, text |-> <<>>]
    ELSE IF Falsy(resp) THEN [error |-> GREPTILE_NO_CONTENT, text |-> <<>>]
    ELSE [error |-> "", text |-> Cat(resp.content, GREPTILE_FOOTER)]

\* switch (selectedProvider)
GenerateWith(provider, resp) ==
    IF provider = "openai" THEN generateWithOpenAI(resp) ELSE generateWithGreptile(resp)

\* the warning is put before every changelog
WarningMessageAlways(more) == WARNING_MESSAGE

\* let warningMessage = ''; if (diff.hasMore) { warningMessage = ... }
WarningMessage(more) == IF more THEN WARNING_MESSAGE ELSE <<>>

\* the publish failure is thrown on
OnPublishFailureThrow == "threw"

\* catch (error) { logger.warn(...) }: the changelog is still returned
OnPublishFailure == "returned"

\* ------------------------------------------------------------ generateChangelog
\* process.env: whether ENABLE_GREPTILE and ENABLE_OPENAI are 'true'
Envs == [greptile : BOOLEAN, openai : BOOLEAN]

\* The repositories a changelog is asked for: one of the allow-list, with and
\* without ".git", and one that is not on it.
GenUrls ==
    {RepoUrl(<<"f", "a", "c", "e", "b", "o", "o", "k">>, <<"r", "e", "a", "c", "t">>, <<>>),
     RepoUrl(<<"f", "a", "c", "e", "b", "o", "o", "k">>, <<"r", "e", "a", "c", "t">>, DOT_GIT),
     RepoUrl(<<"o", "c", "t", "o", "c", "a", "t">>, <<"v", "s", "c", "o", "d", "e">>, <<>>)}

\* The hosting APIs of these runs: a window of a few commits, and one with
\* more commits than the ceiling.
GenApis == {{MaxFanout - 1}, EndlessPages}

InitGen ==
    /\ gpc = "new" /\ env \in Envs
    /\ openai = FALSE /\ shouldPublish = FALSE /\ selectedProvider = "none"
    /\ providerLog = <<>> /\ providerResponse = NoProviderResponse
    /\ finalChangelog = <<>> /\ publishLog = <<>> /\ publishFailed = FALSE
    /\ result = <<>> /\ error = ""
    /\ fpc = "idle" /\ page = 1 /\ allCommits = <<>> /\ hasMore = TRUE
    /\ response = NoResponse /\ pending = {} /\ arrived = <<>>
    /\ summary = NoSummary
    /\ apiSizes \in GenApis
    /\ served = 0 /\ listLog = <<>> /\ detailLog = {} /\ repeated = FALSE
    /\ failures = 0 /\ settled = 0 /\ delays = 0
    /\ TruncIdle /\ UrlIdle /\ RouteIdle

\* new GitHubDiffGenerator(githubToken)
Construct ==
    /\ gpc = "new"
    /\ openai' = env.openai
    /\ gpc' = "constructed"
    /\ UNCHANGED <<routeVars, truncVars, fetchVars, urlVars, env, shouldPublish, selectedProvider,
                   providerLog, providerResponse, finalChangelog, publishLog,
                   publishFailed, result, error>>

\* the environment is changed after the generator was constructed
SetEnv ==
    /\ gpc = "constructed"
    /\ \E e \in Envs \ {env} : env' = e
    /\ gpc' = "configured"
    /\ UNCHANGED <<routeVars, truncVars, fetchVars, urlVars, openai, shouldPublish, selectedProvider,
                   providerLog, providerResponse, finalChangelog, publishLog,
                   publishFailed, result, error>>

\* generateChangelog(repoUrl, startDate, endDate, shouldPublish) is called and
\* awaits getRepoDiff
GenerateChangelog ==
    /\ gpc \in {"constructed", "configured"}
    /\ \E url \in GenUrls, publish \in BOOLEAN :
          /\ repoUrl' = url
          /\ shouldPublish' = publish
    /\ gpc' = "fetch"
    /\ fpc' = "loop"
    /\ UNCHANGED <<routeVars, truncVars, parsed, page, allCommits, hasMore, response, pending,
                   arrived, summary, apiSizes, served, listLog, detailLog, repeated,
                   failures, settled, delays, env, openai, selectedProvider,
                   providerLog, providerResponse, finalChangelog, publishLog,
                   publishFailed, result, error>>

\* getRepoDiff threw: the outer catch logs and rethrows
FetchThrew ==
    /\ gpc = "fetch" /\ fpc = "threw"
    /\ gpc' = "threw"
    /\ error' = HOSTING_API_ERROR
    /\ UNCHANGED <<routeVars, truncVars, fetchVars, urlVars, env, openai, shouldPublish,
                   selectedProvider, providerLog, providerResponse, finalChangelog,
                   publishLog, publishFailed, result>>

\* getRepoDiff returned: truncateDiffs, the warning, selectLLMProvider, and the
\* request to the selected provider
SelectProvider ==
    /\ gpc = "fetch" /\ fpc = "returned"
    /\ diffs' = BlockTexts(summary.diffs)
    /\ truncated' = truncateDiffs(diffs')
    /\ tpc' = "done"
    /\ LET provider == selectLLMProvider(repoUrl, env)
       IN  IF provider = "throw"
           THEN /\ gpc' = "threw"
                /\ error' = NO_PROVIDER_ERROR
                /\ UNCHANGED <<selectedProvider, providerLog>>
           ELSE IF provider = "openai" /\ ~openai
           THEN /\ selectedProvider' = provider
                /\ gpc' = "threw"
                /\ error' = OPENAI_NOT_INITIALIZED
                /\ UNCHANGED providerLog
           ELSE /\ selectedProvider' = provider
                /\ providerLog' = Append(providerLog, provider)
                /\ gpc' = "provider"
                /\ UNCHANGED error
    /\ UNCHANGED <<routeVars, ceiling, fetchVars, urlVars, env, openai, shouldPublish,
                   providerResponse, finalChangelog, publishLog, publishFailed, result>>

\* the provider's request settles: changelogContent, finalChangelog, and
\* either the return or the request to Gramaphone
ProviderSettles ==
    /\ gpc = "provider"
    /\ \E resp \in ProviderResponses :
          /\ providerResponse' = resp
          /\ LET changelogContent == GenerateWith(selectedProvider, resp)
             IN  IF changelogContent.error # ""
                 THEN /\ gpc' = "threw"
                      /\ error' = changelogContent.error
                      /\ UNCHANGED <<finalChangelog, publishLog, result>>
                 ELSE /\ finalChangelog' =
                             Cat(WarningMessage(summary.hasMore), changelogContent.text)
                      /\ IF shouldPublish
                         THEN /\ publishLog' = Append(publishLog, finalChangelog')
                              /\ gpc' = "publish"
                              /\ UNCHANGED result
                         ELSE /\ gpc' = "returned"
                              /\ result' = finalChangelog'
                              /\ UNCHANGED publishLog
                      /\ UNCHANGED error
    /\ UNCHANGED <<routeVars, truncVars, fetchVars, urlVars, env, openai, shouldPublish,
                   selectedProvider, providerLog, publishFailed>>

\* submitToGramaphone settles: a response that is ok, or a failure (a network
\* error, a status that is not ok), which it rethrows to generateChangelog
PublishSettles ==
    /\ gpc = "publish"
    /\ \E ok \in BOOLEAN :
          /\ publishFailed' = ~ok
          /\ gpc' = IF ok THEN "returned" ELSE OnPublishFailure
          /\ result' = IF gpc' = "returned" THEN finalChangelog ELSE result
          /\ error' = IF gpc' = "returned" THEN error ELSE GRAMAPHONE_ERROR
    /\ UNCHANGED <<routeVars, truncVars, fetchVars, urlVars, env, openai, shouldPublish,
                   selectedProvider, providerLog, providerResponse, finalChangelog,
                   publishLog>>

NextGen ==
    \/ Construct
    \/ SetEnv
    \/ GenerateChangelog
    \/ ListRequest
    \/ ListResponse
    \/ ListFailure
    \/ DetailResponse
    \/ DetailFailure
    \/ PromiseAllResolve
    \/ DelayElapsed
    \/ LoopExit
    \/ ReturnSummary
    \/ FetchThrew
    \/ SelectProvider
    \/ ProviderSettles
    \/ PublishSettles

SpecGen == InitGen /\ [][NextGen]_vars


\* ------------------------------------------------------------ generator claims
\* the repository named by the URL is on the allow-list
AllowListed(url) ==
    \E o \in Owners, r \in Repos, x \in {<<>>, DOT_GIT} :
        url = RepoUrl(o, r, x) /\ (o \o SLASH \o r) \in indexedRepos

\* the provider's request succeeded and brought no content
EmptyAnswer ==
    /\ providerResponse # NoProviderResponse
    /\ providerResponse.ok
    /\ Falsy(providerResponse)

\* warningMessage + changelogContent of this run
ExpectedChangelog ==
    Cat(WarningMessage(summary.hasMore),
        GenerateWith(selectedProvider, providerResponse).text)

C13_EmptyContentFails ==
    EmptyAnswer => gpc = "threw" /\ finalChangelog = <<>>

\* C14: in a run whose fetch, provider selection or provider call failed, an
\* empty provider response included, no publish request is issued.
C14_NoPublishAfterFailure ==
    (\/ fpc = "threw"
     \/ error \in {NO_PROVIDER_ERROR, OPENAI_NOT_INITIALIZED, OPENAI_REQUEST_ERROR,
                   GREPTILE_REQUEST_ERROR, GREPTILE_NO_CONTENT}
     \/ (providerResponse # NoProviderResponse /\ ~providerResponse.ok)
     \/ EmptyAnswer)
        => publishLog = <<>>

\* C15: after a failed publish request generateChangelog has still returned,
\* and whatever became of the publish request the string returned is the
\* warning and the provider's changelog of this run.
C15_PublishFailureKeepsChangelog ==
    /\ publishFailed => gpc = "returned"
    /\ gpc = "returned" => result = ExpectedChangelog

\* C15 witness: the publish request failed and the changelog was returned.
C15_Witness ==
    /\ publishFailed
    /\ gpc = "returned"
    /\ publishLog = <<result>>
    /\ result # <<>>

\* C16: the returned string begins with the warning exactly when the summary
\* has hasMore, which is when 3000 or more commits were fetched, and what
\* follows the warning is the generated content.
C16_WarningIffHasMore ==
    gpc = "returned" =>
        /\ StartsWith(result, WARNING_MESSAGE) <=> summary.hasMore
        /\ summary.hasMore <=> Len(allCommits) >= MAX_TOTAL_COMMITS
        /\ summary.hasMore =>
               DropPrefix(result, WARNING_MESSAGE)
                   = GenerateWith(selectedProvider, providerResponse).text

\* C16 witness: 3000 commits were fetched and the returned string begins with
\* the warning.
C16_Witness ==
    /\ gpc = "returned"
    /\ Len(allCommits) = MAX_TOTAL_COMMITS
    /\ summary.hasMore
    /\ StartsWith(result, WARNING_MESSAGE)
    /\ Len(result) > Len(WARNING_MESSAGE)

\* C17: a run that failed with the configuration error has sent no request to
\* the hosting API.
C17_ConfigErrorBeforeNetwork ==
    (gpc = "threw" /\ error = NO_PROVIDER_ERROR) => (listLog = <<>> /\ detailLog = {})

\* C18: with neither provider enabled, a run whose fetch succeeded returns (a
\* preview) and sends no provider a request.
C18_PreviewWhenDisabled ==
    (tpc = "done" /\ ~env.greptile /\ ~env.openai) =>
        (gpc = "returned" /\ result # <<>> /\ providerLog = <<>>)

\* C19: with ENABLE_GREPTILE and without ENABLE_OPENAI, a run whose fetch
\* succeeded sends its request to Greptile, whatever the repository.
C19_GreptileForAnyRepo ==
    (tpc = "done" /\ env.greptile /\ ~env.openai) =>
        (selectedProvider = "greptile" /\ providerLog = <<"greptile">>)

\* C21: the provider follows the configuration the generator was constructed
\* with.  For a repository that is not on the allow-list that configuration
\* selects OpenAI exactly when ENABLE_OPENAI was 'true' at construction, which
\* is when the client this.openai was made; flags changed afterwards do not
\* count.
C21_ProviderFixedAtConstruction ==
    (tpc = "done" /\ ~AllowListed(repoUrl)) => (selectedProvider = "openai" <=> openai)

\* C22: a provider request is out only once the fetch has returned its
\* summary, no hosting-API request is in flight and the diffs are truncated;
\* a publish request is out only once the provider has answered with a
\* changelog.
C22_StagesInOrder ==
    /\ providerLog # <<>> =>
           /\ fpc = "returned" /\ pending = {}
           /\ settled = Len(listLog)
           /\ summary # NoSummary /\ tpc = "done"
    /\ publishLog # <<>> =>
           /\ providerLog # <<>>
           /\ providerResponse # NoProviderResponse /\ providerResponse.ok
           /\ publishLog = <<finalChangelog>>

\* C22 witness: two pages were fetched, the provider answered, and the
\* changelog was posted.
C22_Witness ==
    /\ Len(listLog) >= 2 /\ Len(allCommits) >= 2
    /\ providerLog # <<>>
    /\ providerResponse # NoProviderResponse
    /\ publishLog # <<>>
    /\ gpc = "returned"

\* C24: whatever string is parsed (the empty string, one without "/", a URL
\* ending in "/"), parseGitHubUrl does not throw and the repo it returns is a
\* string.
C24_NeverThrows ==
    parsed # NotParsed =>
        /\ parsed # TypeErrorThrown
        /\ parsed.repo # Undefined
        /\ \A i \in 1..Len(parsed.repo) : \E j \in 1..Len(repoUrl) : parsed.repo[i] = repoUrl[j]

\* C24 witness: the empty string was parsed into an undefined owner and the
\* empty repo.
C24_Witness ==
    /\ repoUrl = <<>>
    /\ parsed # NotParsed /\ parsed # TypeErrorThrown
    /\ parsed.owner = Undefined
    /\ parsed.repo = <<>>

\* C25: getAllCommits issues at most 3000 / 100 = 30 commit-list requests,
\* whatever the pages hold.
C25_AtMostThirtyPages == Len(listLog) <= MAX_TOTAL_COMMITS \div MAX_PER_PAGE

\* text ends with the string p
EndsWith(text, p) ==
    \/ p = <<>>
    \/ /\ Len(text) >= Len(p)
       /\ LET off == Len(text) - Len(p)
          IN  /\ \A k \in 2..Len(p) : text[off + k] = p[k]
              /\ text[off + 1][1] = p[1][1]
              /\ text[off + 1][2] >= p[1][2]

\* '\n\n... (N more changes)'
SummaryLine(n) == Cat(Cat(MorePrefix, NumStr(n)), MoreSuffix)

\* C26: a returned string that ends with the summary line of the block cut
\* names in it the number of blocks handed in that it does not hold, which is
\* not negative.
C26_SummaryCountsDropped ==
    (tpc = "done" /\ EndsWith(truncated, MoreSuffix)) =>
        LET dropped == Len(diffs) - Retained(truncated)
        IN  /\ dropped >= 0
            /\ EndsWith(truncated, SummaryLine(dropped))

\* the lines of a block from line lo on, each with the newline that ended it
\* in the block
LinesFrom(block, lo) ==
    LET lines == SplitLines(block)
    IN  IF lo > Len(lines) THEN <<>> ELSE Join(SubSeq(lines, lo, Len(lines)), << <<NL, 1>> >>)

\* What the claim says a block becomes: its first three lines, a newline, the
\* first min(200, length) characters of what follows them, and the marker
\* (on a line of its own) exactly when more than 200 characters followed.
ShortenedBlock(block) ==
    LET lines == SplitLines(block)
        head == Join(SubSeq(lines, 1, Min(3, Len(lines))), << <<NL, 1>> >>)
        rest == LinesFrom(block, 4)
        kept == Substring0(rest, Min(200, StrLen(rest)))
    IN  Cat(Cat(Cat(head, << <<NL, 1>> >>), kept),
            IF StrLen(rest) > 200 THEN TruncatedMarker ELSE <<>>)

\* C27: when the joined blocks exceed the ceiling, the blocks of the returned
\* string are the shortened blocks: all of them, joined by blank lines, when
\* no summary line was appended, and the leading ones before the summary line
\* otherwise.
C27_ShortenedBlocks ==
    (tpc = "done" /\ JoinedLength(diffs) > ceiling) =>
        LET shortened == [i \in 1..Len(diffs) |-> ShortenedBlock(diffs[i])]
        IN  IF EndsWith(truncated, MoreSuffix)
            THEN StartsWith(truncated,
                            Join(SubSeq(shortened, 1, Retained(truncated)), BlankLine))
            ELSE truncated = Join(shortened, BlankLine)

\* C27 witness: several blocks whose patch is longer than 200 characters came
\* back shortened, with the marker and without a summary line.
C27_Witness ==
    /\ tpc = "done" /\ JoinedLength(diffs) > ceiling
    /\ Len(diffs) >= 2
    /\ ~EndsWith(truncated, MoreSuffix)
    /\ StrLen(LinesFrom(diffs[1], 4)) > 200
    /\ EndsWith(truncated, TruncatedMarker)
    /\ StrLen(truncated) < JoinedLength(diffs)

\* C29: the string truncateDiffs returns is never longer than the blocks
\* joined by blank lines.
C29_NeverLonger ==
    tpc = "done" => StrLen(truncated) <= JoinedLength(diffs)

\* ------------------------------------------------------------ the route
\* POST of the generate-changelog route (src/unnamed/part_001).  Messages are
\* sequences of characters.
\* 'Missing required fields: ...'
MISSING_FIELDS ==
    <<"M", "i", "s", "s", "i", "n", "g", " ", "r", "e", "q", "u", "i", "r",
      "e", "d", " ", "f", "i", "e", "l", "d", "s", ":", " ", "r", "e", "p",
      "o", "U", "r", "l", ",", " ", "s", "t", "a", "r", "t", "D", "a", "t",
      "e", ",", " ", "a", "n", "d", " ", "e", "n", "d", "D", "a", "t", "e",
      " ", "a", "r", "e", " ", "r", "e", "q", "u", "i", "r", "e", "d">>
\* 'GitHub token not configured'
TOKEN_NOT_CONFIGURED ==
    <<"G", "i", "t", "H", "u", "b", " ", "t", "o", "k", "e", "n", " ", "n",
      "o", "t", " ", "c", "o", "n", "f", "i", "g", "u", "r", "e", "d">>
\* error.message.includes('GitHub API')
GITHUB_API ==
    <<"G", "i", "t", "H", "u", "b", " ", "A", "P", "I">>
\* what the later copies of getRepoDiff throw for status 403
RATE_LIMIT_MESSAGE ==
    <<"G", "i", "t", "H", "u", "b", " ", "A", "P", "I", " ", "r", "a", "t",
      "e", " ", "l", "i", "m", "i", "t", " ", "e", "x", "c", "e", "e", "d",
      "e", "d", " ", "o", "r", " ", "a", "u", "t", "h", "e", "n", "t", "i",
      "c", "a", "t", "i", "o", "n", " ", "f", "a", "i", "l", "e", "d">>
\* what the later copies of getRepoDiff throw for status 404
NOT_FOUND_MESSAGE ==
    <<"R", "e", "p", "o", "s", "i", "t", "o", "r", "y", " ", "n", "o", "t",
      " ", "f", "o", "u", "n", "d", " ", "o", "r", " ", "p", "r", "i", "v",
      "a", "t", "e", " ", "r", "e", "p", "o", "s", "i", "t", "o", "r", "y",
      " ", "a", "c", "c", "e", "s", "s", " ", "d", "e", "n", "i", "e", "d">>
\* the message of an axios error, before the status
AXIOS_MESSAGE ==
    <<"R", "e", "q", "u", "e", "s", "t", " ", "f", "a", "i", "l", "e", "d",
      " ", "w", "i", "t", "h", " ", "s", "t", "a", "t", "u", "s", " ", "c",
      "o", "d", "e", " ">>
\* the message of the SyntaxError request.json() throws
JSON_MESSAGE ==
    <<"U", "n", "e", "x", "p", "e", "c", "t", "e", "d", " ", "e", "n", "d",
      " ", "o", "f", " ", "J", "S", "O", "N", " ", "i", "n", "p", "u", "t">>
\* the messages of the errors of generateChangelog, character by character
NO_PROVIDER_TEXT ==
    <<"N", "o", " ", "L", "L", "M", " ", "p", "r", "o", "v", "i", "d", "e",
      "r", " ", "e", "n", "a", "b", "l", "e", "d", ".", " ", "S", "e", "t",
      " ", "e", "i", "t", "h", "e", "r", " ", "E", "N", "A", "B", "L", "E",
      "_", "G", "R", "E", "P", "T", "I", "L", "E", "=", "t", "r", "u", "e",
      " ", "o", "r", " ", "E", "N", "A", "B", "L", "E", "_", "O", "P", "E",
      "N", "A", "I", "=", "t", "r", "u", "e">>
OPENAI_NOT_INITIALIZED_TEXT ==
    <<"O", "p", "e", "n", "A", "I", " ", "c", "l", "i", "e", "n", "t", " ",
      "n", "o", "t", " ", "i", "n", "i", "t", "i", "a", "l", "i", "z", "e",
      "d">>
OPENAI_REQUEST_TEXT ==
    <<"C", "o", "n", "n", "e", "c", "t", "i", "o", "n", " ", "e", "r", "r",
      "o", "r", ".">>
GREPTILE_NO_CONTENT_TEXT ==
    <<"N", "o", " ", "c", "h", "a", "n", "g", "e", "l", "o", "g", " ", "c",
      "o", "n", "t", "e", "n", "t", " ", "r", "e", "c", "e", "i", "v", "e",
      "d", " ", "f", "r", "o", "m", " ", "G", "r", "e", "p", "t", "i", "l",
      "e">>
\* `Greptile API request failed: ${status} ${errorText}` for two answers of Greptile
GREPTILE_REQUEST_TEXT ==
    <<"G", "r", "e", "p", "t", "i", "l", "e", " ", "A", "P", "I", " ", "r",
      "e", "q", "u", "e", "s", "t", " ", "f", "a", "i", "l", "e", "d", ":",
      " ", "5", "0", "0", " ", "I", "n", "t", "e", "r", "n", "a", "l", " ",
      "S", "e", "r", "v", "e", "r", " ", "E", "r", "r", "o", "r">>
GREPTILE_UPSTREAM_TEXT ==
    <<"G", "r", "e", "p", "t", "i", "l", "e", " ", "A", "P", "I", " ", "r",
      "e", "q", "u", "e", "s", "t", " ", "f", "a", "i", "l", "e", "d", ":",
      " ", "5", "0", "2", " ", "G", "i", "t", "H", "u", "b", " ", "A", "P",
      "I", " ", "u", "n", "a", "v", "a", "i", "l", "a", "b", "l", "e">>

\* the statuses a failed hosting-API request comes back with
HostingStatuses == {403, 404, 500}

StatusText(status) ==
    CASE status = 403 -> <<"4", "0", "3">>
      [] status = 404 -> <<"4", "0", "4">>
      [] status = 500 -> <<"5", "0", "0">>

\* the error axios rejects with
AxiosMessage(status) == AXIOS_MESSAGE \o StatusText(status)

\* the catch of getRepoDiff in the later copies of the class: 403 and 404 get
\* messages of their own, every other error is thrown on as it is
TranslatedMessage(status) ==
    IF status = 403 THEN RATE_LIMIT_MESSAGE
    ELSE IF status = 404 THEN NOT_FOUND_MESSAGE
    ELSE AxiosMessage(status)

\* The messages an error of generateChangelog can carry.  A failed hosting-API
\* request has the axios message (the first copy of getRepoDiff rethrows it)
\* or the translated one.
ThrownMessages(err) ==
    IF err = HOSTING_API_ERROR
    THEN {AxiosMessage(st) : st \in HostingStatuses}
             \cup {TranslatedMessage(st) : st \in HostingStatuses}
    ELSE IF err = NO_PROVIDER_ERROR THEN {NO_PROVIDER_TEXT}
    ELSE IF err = OPENAI_NOT_INITIALIZED THEN {OPENAI_NOT_INITIALIZED_TEXT}
    ELSE IF err = OPENAI_REQUEST_ERROR THEN {OPENAI_REQUEST_TEXT}
    ELSE IF err = GREPTILE_NO_CONTENT THEN {GREPTILE_NO_CONTENT_TEXT}
    ELSE {GREPTILE_REQUEST_TEXT, GREPTILE_UPSTREAM_TEXT}

\* a failure of the hosting API is always reported as a GitHub API error
ClassifyByOrigin(message) ==
    IF \/ IndexOf(message, GITHUB_API) > 0
       \/ message = NOT_FOUND_MESSAGE
       \/ IndexOf(message, AXIOS_MESSAGE) > 0
    THEN [status |-> 400, type |-> "github_api_error", message |-> message]
    ELSE [status |-> 500, type |-> "general_error", message |-> message]

\* the catch of the handler
Classify(message) ==
    IF IndexOf(message, GITHUB_API) > 0
    THEN [status |-> 400, type |-> "github_api_error", message |-> message]
    ELSE [status |-> 500, type |-> "general_error", message |-> message]

\* the token is not looked at
TokenNeverMissing(pat) == FALSE

\* !githubToken
TokenMissing(pat) == ~pat

\* the changelog is published unless the caller says otherwise
ShouldPublishDefaultTrue == TRUE

\* shouldPublish: boolean = false
ShouldPublishDefault == FALSE

\* The request bodies: one that is no JSON, and JSON bodies in which each of
\* repoUrl, startDate and endDate is there or is missing (or empty).
Requests ==
    {[json |-> FALSE, repoUrl |-> <<>>, startDate |-> FALSE, endDate |-> FALSE]}
        \cup [json : {TRUE}, repoUrl : GenUrls \cup {<<>>}, startDate : BOOLEAN,
              endDate : BOOLEAN]

\* !repoUrl || !startDate || !endDate
MissingFields(req) == req.repoUrl = <<>> \/ ~req.startDate \/ ~req.endDate

InitRoute ==
    /\ rpc = "received" /\ request \in Requests /\ githubPat \in BOOLEAN
    /\ httpResponse = NoHttpResponse
    /\ gpc = "new" /\ env \in Envs
    /\ openai = FALSE /\ shouldPublish = FALSE /\ selectedProvider = "none"
    /\ providerLog = <<>> /\ providerResponse = NoProviderResponse
    /\ finalChangelog = <<>> /\ publishLog = <<>> /\ publishFailed = FALSE
    /\ result = <<>> /\ error = ""
    /\ fpc = "idle" /\ page = 1 /\ allCommits = <<>> /\ hasMore = TRUE
    /\ response = NoResponse /\ pending = {} /\ arrived = <<>>
    /\ summary = NoSummary
    /\ apiSizes \in GenApis
    /\ served = 0 /\ listLog = <<>> /\ detailLog = {} /\ repeated = FALSE
    /\ failures = 0 /\ settled = 0 /\ delays = 0
    /\ TruncIdle /\ UrlIdle

\* the handler answers without a generator: the body is no JSON (the catch),
\* a field is missing, or the token is not set
RouteRejects ==
    /\ rpc = "received"
    /\ \/ /\ ~request.json
          /\ httpResponse' = Classify(JSON_MESSAGE)
       \/ /\ request.json /\ MissingFields(request)
          /\ httpResponse' = [status |-> 400, type |-> "none", message |-> MISSING_FIELDS]
       \/ /\ request.json /\ ~MissingFields(request) /\ TokenMissing(githubPat)
          /\ httpResponse' = [status |-> 500, type |-> "none",
                              message |-> TOKEN_NOT_CONFIGURED]
    /\ rpc' = "responded"
    /\ UNCHANGED <<truncVars, fetchVars, urlVars, genVars, request, githubPat>>

\* new GitHubDiffGenerator(githubToken) and generateChangelog(repoUrl,
\* new Date(startDate), new Date(endDate)), which awaits getRepoDiff
RouteGenerates ==
    /\ rpc = "received"
    /\ request.json /\ ~MissingFields(request) /\ ~TokenMissing(githubPat)
    /\ openai' = env.openai
    /\ repoUrl' = request.repoUrl
    /\ shouldPublish' = ShouldPublishDefault
    /\ gpc' = "fetch"
    /\ fpc' = "loop"
    /\ rpc' = "generating"
    /\ UNCHANGED <<truncVars, parsed, page, allCommits, hasMore, response, pending,
                   arrived, summary, apiSizes, served, listLog, detailLog, repeated,
                   failures, settled, delays, env, selectedProvider, providerLog,
                   providerResponse, finalChangelog, publishLog, publishFailed, result,
                   error, request, githubPat, httpResponse>>

\* generateChangelog returned: the changelog is formatted and sent (the
\* response is held by its status; its body is not modelled)
RouteReturns ==
    /\ rpc = "generating" /\ gpc = "returned"
    /\ httpResponse' = [status |-> 200, type |-> "changelog", message |-> <<>>]
    /\ rpc' = "responded"
    /\ UNCHANGED <<truncVars, fetchVars, urlVars, genVars, request, githubPat>>

\* generateChangelog threw: the catch of the handler
RouteCatches ==
    /\ rpc = "generating" /\ gpc = "threw"
    /\ \E message \in ThrownMessages(error) : httpResponse' = Classify(message)
    /\ rpc' = "responded"
    /\ UNCHANGED <<truncVars, fetchVars, urlVars, genVars, request, githubPat>>

\* submitToGramaphone is not called from the handler, so its settling is no
\* step here
NextRoute ==
    \/ RouteRejects
    \/ RouteGenerates
    \/ ListRequest
    \/ ListResponse
    \/ ListFailure
    \/ DetailResponse
    \/ DetailFailure
    \/ PromiseAllResolve
    \/ DelayElapsed
    \/ LoopExit
    \/ ReturnSummary
    \/ FetchThrew
    \/ SelectProvider
    \/ ProviderSettles
    \/ RouteReturns
    \/ RouteCatches

SpecRoute == InitRoute /\ [][NextRoute]_vars

\* ------------------------------------------------------------ route claims
\* nothing was constructed and nothing was sent
NothingStarted ==
    /\ gpc = "new" /\ fpc = "idle"
    /\ listLog = <<>> /\ detailLog = {}
    /\ providerLog = <<>> /\ publishLog = <<>>

\* C23 as stated: without GITHUB_PAT the handler answers 'GitHub token not
\* configured' with status 500, constructs no generator and sends no request.
C23_TokenAbsent ==
    (rpc = "responded" /\ ~githubPat) =>
        /\ httpResponse.status = 500
        /\ httpResponse.message = TOKEN_NOT_CONFIGURED
        /\ NothingStarted

\* C23 amended: without GITHUB_PAT no generator is constructed and no request
\* is sent, whatever the body; the answer is 'GitHub token not configured'
\* with status 500 when the body is JSON holding repoUrl, startDate and
\* endDate, and the answer of the field check or of the catch otherwise.
C23_TokenAbsentAfterValidation ==
    (rpc = "responded" /\ ~githubPat) =>
        /\ NothingStarted
        /\ (request.json /\ ~MissingFields(request)) =>
               /\ httpResponse.status = 500
               /\ httpResponse.message = TOKEN_NOT_CONFIGURED
        /\ (request.json /\ MissingFields(request)) =>
               /\ httpResponse.status = 400
               /\ httpResponse.message = MISSING_FIELDS
        /\ ~request.json => httpResponse.status = 500

\* C23 witness: a complete request was answered 'GitHub token not configured'.
C23_Witness ==
    /\ rpc = "responded" /\ ~githubPat
    /\ request.json /\ ~MissingFields(request)
    /\ httpResponse.message = TOKEN_NOT_CONFIGURED
    /\ gpc = "new"

\* the message holds 'GitHub API' somewhere
HoldsGitHubApi(message) ==
    \E i \in 1..Len(message) :
        /\ i + Len(GITHUB_API) - 1 <= Len(message)
        /\ \A k \in 1..Len(GITHUB_API) : message[i + k - 1] = GITHUB_API[k]

\* C28: a failure is answered with type 'github_api_error' and status 400
\* exactly when the message of the error holds 'GitHub API', and with type
\* 'general_error' and status 500 otherwise, as is the hosting API's 404
\* translated to 'Repository not found or private repository access denied'.
C28_ErrorClassification ==
    (rpc = "responded" /\ gpc = "threw") =>
        /\ httpResponse.message \in ThrownMessages(error)
        /\ IF HoldsGitHubApi(httpResponse.message)
           THEN httpResponse.type = "github_api_error" /\ httpResponse.status = 400
           ELSE httpResponse.type = "general_error" /\ httpResponse.status = 500
        /\ httpResponse.message = NOT_FOUND_MESSAGE =>
               httpResponse.type = "general_error" /\ httpResponse.status = 500

\* C28 witness: a failed hosting-API request was answered with the translated
\* 404 message as a general error.
C28_Witness ==
    /\ rpc = "responded" /\ gpc = "threw" /\ fpc = "threw"
    /\ httpResponse.message = NOT_FOUND_MESSAGE
    /\ httpResponse.type = "general_error"
    /\ httpResponse.status = 500

\* C30: whatever a request handled by the route ends in, no changelog was
\* posted to Gramaphone, the call having been made with shouldPublish false.
C30_RouteNeverPublishes ==
    /\ publishLog = <<>> /\ ~publishFailed /\ gpc # "publish"
    /\ rpc \in {"generating", "responded"} => ~shouldPublish

\* C30 witness: the route answered with a changelog a provider wrote, and
\* nothing was posted.
C30_Witness ==
    /\ rpc = "responded" /\ httpResponse.status = 200
    /\ gpc = "returned" /\ providerLog # <<>> /\ result # <<>>
    /\ publishLog = <<>>

====
